---- MODULE Spec2Model ----
(***************************************************************************)
(* Model of react-twitter-widgets, src/src/index.js.                       *)
(*                                                                         *)
(* Spec       : one component instance driven by useTwitterWidget (mount   *)
(*              sessions, cancellation flag, DOM children, error state).   *)
(* SpecEvents : several Tweet instances driven by useTwitterEvents (the    *)
(*              process-wide HANDLERS registry and the event bus).         *)
(*                                                                         *)
(* JavaScript is single threaded: every action below is one synchronous    *)
(* run to completion (a React commit, or the continuation of an await).    *)
(***************************************************************************)
EXTENDS Naturals, Sequences, FiniteSets, TLC

VARIABLES
    scriptState,   \* the shared third-party script: "loading" | "loaded" | "failed"
    mounted,       \* the widget component instance: "no" | "yes" | "gone"
    refCurrent,    \* ref.current is a DOM element
    props,         \* props of the last render
    memoPrimary,   \* useShallowCompareMemoize(primaryArg)
    memoOptions,   \* useShallowCompareMemoize(options)
    error,         \* useState(null): the error state
    rendered,      \* the argument renderError got in the last render
    children,      \* child elements of the mount point
    sessions,      \* one record per run of the effect (closure of loadWidget)
    heap,          \* the objects of the JavaScript heap, by address
    escaped,       \* unhandled promise rejections seen by the embedding application
    tweets,        \* the Tweet instances using useTwitterEvents
    HANDLERS,      \* HANDLERS[kind][id]
    bindCalls,     \* events.bind calls made so far, per event kind
    registered,    \* history: the callback last passed to a registration, per kind and id
    dispatched     \* the last event of the bus and the callbacks it invoked

vars == <<scriptState, mounted, refCurrent, props, memoPrimary, memoOptions, error,
          rendered, children, sessions, heap, escaped, tweets, HANDLERS, bindCalls,
          registered, dispatched>>

widgetVars == <<mounted, refCurrent, props, memoPrimary, memoOptions, error,
                rendered, children, sessions, heap>>

eventVars == <<tweets, HANDLERS, bindCalls, registered, dispatched>>

----------------------------------------------------------------------------
(* Bounds *)

MaxSessions == 2
MaxTweets == 2

----------------------------------------------------------------------------
(* Values *)

childDivIdentifyingAttribute == "twdiv"

Null == [kind |-> "null", from |-> 0]
NotRendered == [kind |-> "notrendered", from |-> 0]

\* A JavaScript value passed as primaryArg or options: a string or a reference.
Str(s) == [t |-> "str", s |-> s, a |-> 0]
Ref(a) == [t |-> "ref", s |-> "", a |-> a]

\* The objects the embedding application owns. An object is a sequence of
\* <<key, value>> pairs in insertion order. Objects 1 and 2 are shallowly equal.
CallerHeap ==
    (1 :> << <<"lang", 1>>, <<"size", 2>> >>) @@
    (2 :> << <<"size", 2>>, <<"lang", 1>> >>) @@
    (3 :> << <<"lang", 1>>, <<"size", 3>> >>) @@
    (4 :> << <<"sourceType", 1>> >>)

CallerAddrs == DOMAIN CallerHeap

PrimaryArgs == {Str("alice"), Str("bob"), Ref(4)}
OptionArgs == {Ref(1), Ref(2), Ref(3)}
OnLoads == {"absent", "returns", "throws"}
Undefined == [t |-> "undef", s |-> "", a |-> 0]

\* The props the embedding application renders the component with.
Props(primaryArg, options, onLoad, renderError) ==
    [primaryArg |-> primaryArg, options |-> options,
     onLoad |-> onLoad, renderError |-> renderError]

PropsSet ==
    { Props(Str("alice"), Ref(1), "returns", TRUE),
      Props(Str("alice"), Ref(2), "absent", FALSE),
      Props(Str("bob"), Ref(1), "throws", FALSE),
      Props(Str("bob"), Ref(3), "returns", TRUE),
      Props(Ref(4), Ref(3), "absent", TRUE) }

NoProps == [primaryArg |-> Undefined, options |-> Undefined,
            onLoad |-> "absent", renderError |-> FALSE]

\* The address cloneShallow's n-th new object of session s gets.
CloneAddr(s, n) == Cardinality(CallerAddrs) + 2 * (s - 1) + n

----------------------------------------------------------------------------
(* Helpers of ./utils, which index.js imports *)

\* cloneShallow(value): a fresh object with the same own fields (one level),
\* or the value itself when it is not an object.
CloneShallow(v, h, fresh) ==
    IF v.t = "ref" THEN [val |-> Ref(fresh), heap |-> (fresh :> h[v.a]) @@ h]
    ELSE [val |-> v, heap |-> h]

\* removeChildrenWithAttribute(node, attribute)
RemoveChildrenWithAttribute(kids, attribute) ==
    {k \in kids : attribute \notin k.attrs}

\* isShallowEqual(a, b), the comparison of useShallowCompareMemoize: the same
\* value, or two objects with the same keys and identical values under them.
Keys(o) == {o[i][1] : i \in DOMAIN o}
Field(o, k) == LET i == CHOOSE j \in DOMAIN o : o[j][1] = k IN o[i][2]
IsShallowEqual(x, y, h) ==
    \/ x = y
    \/ /\ x.t = "ref" /\ y.t = "ref"
       /\ Keys(h[x.a]) = Keys(h[y.a])
       /\ \A k \in Keys(h[x.a]) : Field(h[x.a], k) = Field(h[y.a], k)

UseShallowCompareMemoize(value, memo, h) ==
    IF IsShallowEqual(value, memo, h) THEN memo ELSE value

\* What the third-party factory function does to an object it is handed: it
\* overwrites the fields (the value 0 stands for "changed by twitter").
TwitterMutates(o) == [i \in DOMAIN o |-> <<o[i][1], 0>>]
FactoryMutates(args, h) ==
    [a \in DOMAIN h |-> IF Ref(a) \in args THEN TwitterMutates(h[a]) ELSE h[a]]

----------------------------------------------------------------------------
(* useTwitterWidget *)

\* JSX of the six components: {error && renderError && renderError(error)}
Render(err, renderError) ==
    IF err # Null /\ renderError THEN err ELSE NotRendered

\* setError(e): React drops a state update of an unmounted component.
SetError(e) == IF mounted = "yes" THEN e ELSE error

Current == Len(sessions)

\* A cleanup that does not set the flag.
CleanupSkipped(ss) == ss

\* The cleanup function of the previous run of the effect.
Cleanup(ss) ==
    IF Len(ss) = 0 THEN ss
    ELSE [ss EXCEPT ![Len(ss)] =
            [@ EXCEPT !.isCanceled = TRUE,
                      !.canceledAt = IF @ = "never" /\ ss[Len(ss)].pc # "done"
                                     THEN ss[Len(ss)].pc ELSE @]]

\* The effect without the sweep of line 52.
SweepChildrenSkipped(kids) == kids

\* Line 52: the effect sweeps the children it tagged earlier.
SweepChildren(kids) == RemoveChildrenWithAttribute(kids, childDivIdentifyingAttribute)

\* Lines 59-61: the new container, tagged and appended.
NewChild(id) == [id |-> id, attrs |-> {childDivIdentifyingAttribute}]

\* A run of the effect that calls loadWidget() whatever ref.current is.
NewSessionWithoutRefTest(p, id, hasRef) ==
    [pc |-> "awaitWF",
     isCanceled |-> FALSE,
     canceledAt |-> "never",
     childEl |-> id,
     primaryArg |-> p.primaryArg,
     options |-> p.options,
     onLoad |-> p.onLoad,
     resultMaybe |-> "pending",
     factoryCalls |-> << >>,
     onLoadCalls |-> << >>,
     setErrorCalls |-> 0]

\* Lines 49-64: the closure of one run of the effect; loadWidget() is called
\* only if ref.current is set (line 51).
NewSession(p, id, hasRef) ==
    [pc |-> IF hasRef THEN "awaitWF" ELSE "skipped",
     isCanceled |-> FALSE,
     canceledAt |-> "never",
     childEl |-> id,
     primaryArg |-> p.primaryArg,
     options |-> p.options,
     onLoad |-> p.onLoad,
     resultMaybe |-> "pending",
     factoryCalls |-> << >>,
     onLoadCalls |-> << >>,
     setErrorCalls |-> 0]

\* The body of the effect, lines 42-112, run after the cleanup of the
\* previous run: up to the first await of loadWidget.
RunEffect(p, hasRef) ==
    LET id == Len(sessions) + 1 IN
    /\ error' = Null
    /\ rendered' = Render(Null, p.renderError)
    /\ sessions' = Append(Cleanup(sessions), NewSession(p, id, hasRef))
    /\ children' = IF hasRef
                   THEN SweepChildren(children) \cup {NewChild(id)}
                   ELSE children

\* Deps made of the objects of the render themselves.
DepsByIdentity(p, memoP, memoO, h) == <<p.primaryArg, p.options>>

\* Lines 36-40: the deps of the effect next to factoryFunctionName, which is
\* a constant of each component.
Deps(p, memoP, memoO, h) ==
    <<UseShallowCompareMemoize(p.primaryArg, memoP, h),
      UseShallowCompareMemoize(p.options, memoO, h)>>

Mount(p) ==
    /\ mounted = "no"
    /\ mounted' = "yes"
    /\ refCurrent' = TRUE
    /\ props' = p
    /\ memoPrimary' = Deps(p, memoPrimary, memoOptions, heap)[1]
    /\ memoOptions' = Deps(p, memoPrimary, memoOptions, heap)[2]
    /\ RunEffect(p, TRUE)
    /\ UNCHANGED <<scriptState, heap, escaped>>
    /\ UNCHANGED eventVars

\* The first render of the hook when the ref is not attached to an element at
\* the time the effect runs (the test of line 51 fails).
MountDetached(p) ==
    /\ mounted = "no"
    /\ mounted' = "yes"
    /\ refCurrent' = FALSE
    /\ props' = p
    /\ memoPrimary' = Deps(p, memoPrimary, memoOptions, heap)[1]
    /\ memoOptions' = Deps(p, memoPrimary, memoOptions, heap)[2]
    /\ RunEffect(p, FALSE)
    /\ UNCHANGED <<scriptState, heap, escaped>>
    /\ UNCHANGED eventVars

\* A render whose deps differ from the previous ones: cleanup, then the effect.
DepsChange(p) ==
    /\ mounted = "yes"
    /\ Len(sessions) < MaxSessions
    /\ memoPrimary' = Deps(p, memoPrimary, memoOptions, heap)[1]
    /\ memoOptions' = Deps(p, memoPrimary, memoOptions, heap)[2]
    /\ (memoPrimary' # memoPrimary \/ memoOptions' # memoOptions)
    /\ props' = p
    /\ RunEffect(p, refCurrent)
    /\ UNCHANGED <<scriptState, mounted, refCurrent, heap, escaped>>
    /\ UNCHANGED eventVars

\* A render with the same deps: the effect does not run.
RerenderSameDeps(p) ==
    /\ mounted = "yes"
    /\ p # props
    /\ memoPrimary' = Deps(p, memoPrimary, memoOptions, heap)[1]
    /\ memoOptions' = Deps(p, memoPrimary, memoOptions, heap)[2]
    /\ memoPrimary' = memoPrimary /\ memoOptions' = memoOptions
    /\ props' = p
    /\ rendered' = Render(error, p.renderError)
    /\ UNCHANGED <<scriptState, mounted, refCurrent, error, children, sessions, heap, escaped>>
    /\ UNCHANGED eventVars

Unmount ==
    /\ mounted = "yes"
    /\ mounted' = "gone"
    /\ refCurrent' = FALSE
    /\ sessions' = Cleanup(sessions)
    /\ rendered' = NotRendered
    /\ UNCHANGED <<scriptState, props, memoPrimary, memoOptions, error, children, heap, escaped>>
    /\ UNCHANGED eventVars

----------------------------------------------------------------------------
(* loadWidget after its awaits *)

\* The Error object a session throws or is handed by a rejection.
Err(kind, s) == [kind |-> kind, from |-> s]

\* Continuations served in the order the sessions were started.
AwaitingInTurn(s, pc) ==
    /\ s \in 1..Len(sessions) /\ sessions[s].pc = pc
    /\ \A t \in 1..(s - 1) : sessions[t].pc = "done"

\* Lines 64 and 70: the session is suspended at the await named by pc.
Awaiting(s, pc) == s \in 1..Len(sessions) /\ sessions[s].pc = pc

\* A catch block that logs the error and drops it.
CatchWithoutSetError(s, e, result, calls) ==
    /\ sessions' = [sessions EXCEPT ![s] =
                      [@ EXCEPT !.pc = "done",
                                !.resultMaybe = result,
                                !.factoryCalls = calls]]
    /\ UNCHANGED <<error, rendered>>

\* Lines 84-88: catch (e) { console.error(e); setError(e); return; }
Catch(s, e, result, calls) ==
    /\ sessions' = [sessions EXCEPT ![s] =
                      [@ EXCEPT !.pc = "done",
                                !.resultMaybe = result,
                                !.factoryCalls = calls,
                                !.setErrorCalls = @ + 1]]
    /\ error' = SetError(e)
    /\ rendered' = IF mounted = "yes" THEN Render(e, props.renderError) ELSE rendered

\* A check of the flag after the first await, which the source does not have.
ReturnsIfCanceledAfterWidgetFactory(isCanceled) == ~isCanceled

\* Line 64: nothing stands between await twWidgetFactory() and the call of
\* wf[factoryFunctionName]; the session goes on whatever isCanceled is.
GoesOnAfterWidgetFactory(isCanceled) == TRUE

\* The call without cloneShallow.
FactoryArgumentUncloned(v, h, fresh) == [val |-> v, heap |-> h]

\* Lines 71 and 73: what the factory function is handed for a value of the caller.
FactoryArgument(v, h, fresh) == CloneShallow(v, h, fresh)

\* Lines 70-74: the arguments of the call and the heap after building them.
FactoryArguments(s) ==
    LET c1 == FactoryArgument(sessions[s].primaryArg, heap, CloneAddr(s, 1))
        c2 == FactoryArgument(sessions[s].options, c1.heap, CloneAddr(s, 2))
    IN [primaryArg |-> c1.val, el |-> sessions[s].childEl, options |-> c2.val,
        heap |-> c2.heap]

\* Line 78 with the test of the flag inverted.
ThrowsNoWidgetWhenCanceled(resultMaybe, isCanceled) == resultMaybe = "none" /\ isCanceled

\* Line 78: if (!resultMaybe && !isCanceled) throw
ThrowsNoWidget(resultMaybe, isCanceled) == resultMaybe = "none" /\ ~isCanceled

\* A removal that sweeps the mount point instead of removing childEl.
RemoveChildBySweep(kids, el) ==
    RemoveChildrenWithAttribute(kids, childDivIdentifyingAttribute)

\* Lines 95-97: childEl.remove()
RemoveChild(kids, el) == {k \in kids : k.id # el}

\* Lines 90-103: what is left to do once the try block is passed.
AfterTry(hasRef, isCanceled, onLoad) ==
    IF ~hasRef THEN "return"
    ELSE IF isCanceled THEN "remove"
    ELSE IF onLoad # "absent" THEN "onLoad"
    ELSE "return"

ScriptLoaded ==
    /\ scriptState = "loading"
    /\ scriptState' = "loaded"
    /\ UNCHANGED <<escaped>>
    /\ UNCHANGED widgetVars
    /\ UNCHANGED eventVars

ScriptFailed ==
    /\ scriptState = "loading"
    /\ scriptState' = "failed"
    /\ UNCHANGED <<escaped>>
    /\ UNCHANGED widgetVars
    /\ UNCHANGED eventVars

\* await twWidgetFactory() rejects.
WidgetFactoryRejected(s) ==
    /\ Awaiting(s, "awaitWF")
    /\ scriptState = "failed"
    /\ Catch(s, Err("loadfail", s), "pending", sessions[s].factoryCalls)
    /\ UNCHANGED <<scriptState, mounted, refCurrent, props, memoPrimary, memoOptions,
                   children, heap, escaped>>
    /\ UNCHANGED eventVars

\* await twWidgetFactory() resolves and wf[factoryFunctionName](...) returns a promise.
FactoryCalled(s) ==
    /\ Awaiting(s, "awaitWF")
    /\ scriptState = "loaded"
    /\ IF GoesOnAfterWidgetFactory(sessions[s].isCanceled)
       THEN LET args == FactoryArguments(s)
                call == [primaryArg |-> args.primaryArg, el |-> args.el,
                         options |-> args.options]
            IN /\ sessions' = [sessions EXCEPT ![s] =
                                 [@ EXCEPT !.pc = "awaitCall",
                                           !.factoryCalls = Append(@, call)]]
               /\ heap' = FactoryMutates({args.primaryArg, args.options}, args.heap)
       ELSE /\ sessions' = [sessions EXCEPT ![s].pc = "done"]
            /\ heap' = heap
    /\ UNCHANGED <<scriptState, mounted, refCurrent, props, memoPrimary, memoOptions,
                   error, rendered, children, escaped>>
    /\ UNCHANGED eventVars

\* await twWidgetFactory() resolves and wf[factoryFunctionName](...) throws.
FactoryThrew(s) ==
    /\ Awaiting(s, "awaitWF")
    /\ scriptState = "loaded"
    /\ GoesOnAfterWidgetFactory(sessions[s].isCanceled)
    /\ LET args == FactoryArguments(s)
           call == [primaryArg |-> args.primaryArg, el |-> args.el,
                    options |-> args.options]
       IN /\ Catch(s, Err("threw", s), "threw", Append(sessions[s].factoryCalls, call))
          /\ heap' = FactoryMutates({args.primaryArg, args.options}, args.heap)
    /\ UNCHANGED <<scriptState, mounted, refCurrent, props, memoPrimary, memoOptions,
                   children, escaped>>
    /\ UNCHANGED eventVars

\* The promise of the factory call rejects.
FactoryRejected(s) ==
    /\ Awaiting(s, "awaitCall")
    /\ Catch(s, Err("rejected", s), "rejected", sessions[s].factoryCalls)
    /\ UNCHANGED <<scriptState, mounted, refCurrent, props, memoPrimary, memoOptions,
                   children, heap, escaped>>
    /\ UNCHANGED eventVars

\* The promise of the factory call resolves, with a widget or with undefined.
FactoryResolved(s, result) ==
    /\ Awaiting(s, "awaitCall")
    /\ IF ThrowsNoWidget(result, sessions[s].isCanceled)
       THEN /\ Catch(s, Err("nowidget", s), result, sessions[s].factoryCalls)
            /\ UNCHANGED <<children, escaped>>
       ELSE LET todo == AfterTry(refCurrent, sessions[s].isCanceled, sessions[s].onLoad) IN
            /\ sessions' = [sessions EXCEPT ![s] =
                              [@ EXCEPT !.pc = "done",
                                        !.resultMaybe = result,
                                        !.onLoadCalls = IF todo = "onLoad"
                                                        THEN Append(@, << >>) ELSE @]]
            /\ children' = IF todo = "remove"
                           THEN RemoveChild(children, sessions[s].childEl)
                           ELSE children
            \* onLoad() is outside the try block and loadWidget() is not awaited.
            /\ escaped' = IF todo = "onLoad" /\ sessions[s].onLoad = "throws"
                          THEN escaped \cup {Err("onLoad", s)} ELSE escaped
            /\ UNCHANGED <<error, rendered>>
    /\ UNCHANGED <<scriptState, mounted, refCurrent, props, memoPrimary, memoOptions, heap>>
    /\ UNCHANGED eventVars

----------------------------------------------------------------------------
(* useTwitterEvents *)

Kinds == {"tweet", "retweet", "like"}
Ids == {"X", "Y"}

\* The props of a Tweet that useTwitterEvents reads. The id "" and the
\* callback "undefined" are the falsy values of lines 165, 173 and 181.
TweetProps(id, onTweet, onRetweet, onLike) ==
    [id |-> id, cb |-> [tweet |-> onTweet, retweet |-> onRetweet, like |-> onLike]]

TweetPropsSet ==
    { TweetProps("X", "undefined", "undefined", "h1"),
      TweetProps("X", "undefined", "undefined", "h2"),
      TweetProps("X", "h2", "undefined", "undefined"),
      TweetProps("Y", "h1", "h2", "h1"),
      TweetProps("", "h1", "h1", "h1") }

NoTweetProps == TweetProps("", "undefined", "undefined", "undefined")

Tweets == 1..MaxTweets

\* The payload of an event of the bus.
Intents == [tweet_id : Ids, source_tweet_id : Ids]

\* Every dispatcher reading tweet_id.
SubjectIdAlwaysTweetId(kind, intent) == intent.tweet_id

\* Lines 125, 133, 141: the field of the payload each dispatcher reads.
SubjectId(kind, intent) ==
    IF kind = "retweet" THEN intent.source_tweet_id ELSE intent.tweet_id

\* Lines 123-148: BASE_HANDLERS[kind](intent), as the calls it makes.
BaseHandler(kind, intent, H) ==
    LET handler == H[kind][SubjectId(kind, intent)] IN
    IF handler = "undefined" THEN << >> ELSE << [cb |-> handler, args |-> << >>] >>

\* A registration that stores the callback under the id for every kind.
SetHandlerForAllKinds(H, kind, id, callback) ==
    [k \in DOMAIN H |-> [H[k] EXCEPT ![id] = callback]]

\* A registration that keeps the callback already stored under the id.
SetHandlerIfAbsent(H, kind, id, callback) ==
    IF H[kind][id] = "undefined" THEN [H EXCEPT ![kind][id] = callback] ELSE H

\* Lines 169, 177, 185: HANDLERS[kind][id] = callback
SetHandler(H, kind, id, callback) == [H EXCEPT ![kind][id] = callback]

\* An effect that clears the entry when the callback is absent.
RegistrationEffectWithRemoval(H, kind, id, callback) ==
    IF id = "" THEN H ELSE [H EXCEPT ![kind][id] = callback]

\* Lines 164-186: the effect of one kind, run because [id, callback] changed.
RegistrationEffect(H, kind, id, callback) ==
    IF callback = "undefined" \/ id = "" THEN H
    ELSE SetHandler(H, kind, id, callback)

\* The effects of the kinds in ks, in the order of the source.
RegistrationEffects(H, ks, p) ==
    LET t == IF "tweet" \in ks THEN RegistrationEffect(H, "tweet", p.id, p.cb["tweet"]) ELSE H
        r == IF "retweet" \in ks THEN RegistrationEffect(t, "retweet", p.id, p.cb["retweet"]) ELSE t
    IN IF "like" \in ks THEN RegistrationEffect(r, "like", p.id, p.cb["like"]) ELSE r

\* History: the registrations asked for, whatever the registry made of them.
NoteRegistrations(reg, ks, p) ==
    [k \in Kinds |->
        IF k \in ks /\ p.id # "" /\ p.cb[k] # "undefined"
        THEN [reg[k] EXCEPT ![p.id] =
                [last |-> p.cb[k],
                 overwritten |-> IF @.last \in {"undefined", p.cb[k]}
                                 THEN @.overwritten \ {p.cb[k]}
                                 ELSE (@.overwritten \cup {@.last}) \ {p.cb[k]}]]
        ELSE reg[k]]

\* Line 162: the deps of the first effect are [], so it runs once per mounted
\* instance, and so does loadEvents().
RunsLoadEvents(firstRender) == firstRender

MountTweet(i, p) ==
    /\ tweets[i].state = "no"
    /\ tweets' = [tweets EXCEPT ![i] =
                    [state |-> "yes", props |-> p,
                     loadEvents |-> IF RunsLoadEvents(TRUE) THEN "await" ELSE "idle"]]
    /\ HANDLERS' = RegistrationEffects(HANDLERS, Kinds, p)
    /\ registered' = NoteRegistrations(registered, Kinds, p)
    /\ UNCHANGED <<scriptState, escaped, bindCalls, dispatched>>
    /\ UNCHANGED widgetVars

\* The kinds whose effect deps [id, callback] differ from the previous render.
ChangedDeps(old, new) ==
    {k \in Kinds : old.id # new.id \/ old.cb[k] # new.cb[k]}

RerenderTweet(i, p) ==
    /\ tweets[i].state = "yes"
    /\ p # tweets[i].props
    /\ tweets' = [tweets EXCEPT ![i].props = p]
    /\ HANDLERS' = RegistrationEffects(HANDLERS, ChangedDeps(tweets[i].props, p), p)
    /\ registered' = NoteRegistrations(registered, ChangedDeps(tweets[i].props, p), p)
    /\ UNCHANGED <<scriptState, escaped, bindCalls, dispatched>>
    /\ UNCHANGED widgetVars

\* None of the effects of useTwitterEvents returns a cleanup function.
UnmountTweet(i) ==
    /\ tweets[i].state = "yes"
    /\ tweets' = [tweets EXCEPT ![i].state = "gone", ![i].props = NoTweetProps]
    /\ UNCHANGED <<scriptState, escaped, HANDLERS, bindCalls, registered, dispatched>>
    /\ UNCHANGED widgetVars

\* Lines 154-158: await twEventsFactory() resolves, then three events.bind calls.
EventsFactoryResolved(i) ==
    /\ tweets[i].loadEvents = "await"
    /\ scriptState = "loaded"
    /\ tweets' = [tweets EXCEPT ![i].loadEvents = "bound"]
    /\ bindCalls' = [k \in Kinds |-> bindCalls[k] + 1]
    /\ UNCHANGED <<scriptState, escaped, HANDLERS, registered, dispatched>>
    /\ UNCHANGED widgetVars

\* await twEventsFactory() rejects: loadEvents has no try block and
\* loadEvents() is not awaited, so the rejection is unhandled.
EventsFactoryRejected(i) ==
    /\ tweets[i].loadEvents = "await"
    /\ scriptState = "failed"
    /\ tweets' = [tweets EXCEPT ![i].loadEvents = "rejected"]
    /\ escaped' = escaped \cup {Err("loadEvents", i)}
    /\ UNCHANGED <<scriptState, HANDLERS, bindCalls, registered, dispatched>>
    /\ UNCHANGED widgetVars

RECURSIVE Repeat(_, _)
Repeat(calls, n) == IF n = 0 THEN << >> ELSE calls \o Repeat(calls, n - 1)

\* The event bus of the third-party script triggers an event: it calls every
\* listener that events.bind added for the kind, once per bind call.
Emit(kind, intent) ==
    /\ scriptState = "loaded"
    /\ dispatched' = [kind |-> kind, intent |-> intent,
                      calls |-> Repeat(BaseHandler(kind, intent, HANDLERS), bindCalls[kind])]
    /\ UNCHANGED <<scriptState, escaped, tweets, HANDLERS, bindCalls, registered>>
    /\ UNCHANGED widgetVars

NoEvent == [kind |-> "none", intent |-> [tweet_id |-> "", source_tweet_id |-> ""],
            calls |-> << >>]

----------------------------------------------------------------------------

Init ==
    /\ scriptState = "loading"
    /\ mounted = "no"
    /\ refCurrent = FALSE
    /\ props = NoProps
    /\ memoPrimary = Undefined
    /\ memoOptions = Undefined
    /\ error = Null
    /\ rendered = NotRendered
    /\ children = {}
    /\ sessions = << >>
    /\ heap = CallerHeap
    /\ escaped = {}
    /\ tweets = [i \in Tweets |->
                    [state |-> "no", props |-> NoTweetProps, loadEvents |-> "idle"]]
    /\ HANDLERS = [k \in Kinds |-> [id \in Ids |-> "undefined"]]
    /\ bindCalls = [k \in Kinds |-> 0]
    /\ registered = [k \in Kinds |-> [id \in Ids |->
                        [last |-> "undefined", overwritten |-> {}]]]
    /\ dispatched = NoEvent

Next ==
    \/ ScriptLoaded
    \/ ScriptFailed
    \/ \E p \in PropsSet : Mount(p)
    \/ \E p \in PropsSet : DepsChange(p)
    \/ \E p \in PropsSet : RerenderSameDeps(p)
    \/ Unmount
    \/ \E s \in 1..MaxSessions : WidgetFactoryRejected(s)
    \/ \E s \in 1..MaxSessions : FactoryCalled(s)
    \/ \E s \in 1..MaxSessions : FactoryThrew(s)
    \/ \E s \in 1..MaxSessions : FactoryRejected(s)
    \/ \E s \in 1..MaxSessions, r \in {"widget", "none"} : FactoryResolved(s, r)

Spec == Init /\ [][Next]_vars

\* Spec with the ref possibly not attached when the effect runs.
NextDetached ==
    \/ Next
    \/ \E p \in PropsSet : MountDetached(p)

SpecDetached == Init /\ [][NextDetached]_vars

NextEvents ==
    \/ ScriptLoaded
    \/ ScriptFailed
    \/ \E i \in Tweets, p \in TweetPropsSet : MountTweet(i, p)
    \/ \E i \in Tweets, p \in TweetPropsSet : RerenderTweet(i, p)
    \/ \E i \in Tweets : UnmountTweet(i)
    \/ \E i \in Tweets : EventsFactoryResolved(i)
    \/ \E i \in Tweets : EventsFactoryRejected(i)
    \/ \E k \in Kinds, intent \in Intents : Emit(k, intent)

SpecEvents == Init /\ [][NextEvents]_vars

----------------------------------------------------------------------------
(* Claims about useTwitterWidget, checked under Spec *)

SessionIds == 1..Len(sessions)

CanceledBeforeSettled(s) == sessions[s].canceledAt \in {"awaitWF", "awaitCall"}

\* C1: a session canceled before its factory call settles never sets the
\* error state and never invokes onLoad, however the call ends; so a non-null
\* error state always comes from the newest session.
C1_CanceledSessionHasNoEffect ==
    /\ \A s \in SessionIds :
          CanceledBeforeSettled(s) =>
             sessions[s].setErrorCalls = 0 /\ sessions[s].onLoadCalls = << >>
    /\ error # Null => error.from = Current

\* C2: the mount point has at most one child tagged "twdiv", and it is the
\* container of the latest session.
TaggedChildren == {k \in children : childDivIdentifyingAttribute \in k.attrs}

C2_AtMostOneContainer ==
    /\ Cardinality(TaggedChildren) <= 1
    /\ \A k \in TaggedChildren : k.id = Current

\* Two sessions have run, the stale one has finished, one container is left.
C2_Witness ==
    /\ Len(sessions) = 2
    /\ sessions[1].pc = "done" /\ sessions[1].resultMaybe = "widget"
    /\ sessions[2].pc = "awaitCall"
    /\ Cardinality(TaggedChildren) = 1

\* C3: when the factory call of a session that is not canceled resolves with
\* no result, the error state becomes the "could not create widget" error of
\* that session, onLoad is not invoked, and the error is what renderError is
\* given when the renderError prop is provided.
C3_NoResultIsAnError ==
    [][\A s \in SessionIds :
          (/\ sessions[s].pc = "awaitCall"
           /\ ~sessions[s].isCanceled
           /\ sessions'[s].pc = "done"
           /\ sessions'[s].resultMaybe = "none")
          => /\ error' = Err("nowidget", s)
             /\ error' # Null
             /\ sessions'[s].onLoadCalls = << >>
             /\ sessions'[s].setErrorCalls = 1
             /\ rendered' = IF props.renderError THEN error' ELSE NotRendered]_vars

C3_Witness ==
    \E s \in SessionIds :
        /\ sessions[s].resultMaybe = "none"
        /\ ~sessions[s].isCanceled
        /\ sessions[s].onLoad # "absent"
        /\ error = Err("nowidget", s)
        /\ rendered = error

\* C4: a session that is not canceled, with its mount point in place, whose
\* factory call resolved with a widget has invoked onLoad (if provided)
\* exactly once with no arguments, and the error state is null; no session
\* invokes onLoad twice or before its factory call resolved.
C4_OnLoadOnceAndNoError ==
    \A s \in SessionIds :
        /\ Len(sessions[s].onLoadCalls) <= 1
        /\ sessions[s].onLoadCalls # << >> => sessions[s].resultMaybe = "widget"
        /\ (/\ ~sessions[s].isCanceled
            /\ sessions[s].pc = "done"
            /\ sessions[s].resultMaybe = "widget")
           => /\ error = Null
              /\ sessions[s].onLoad # "absent" => sessions[s].onLoadCalls = << << >> >>

\* C8: the factory function is handed clones, never an object of the caller,
\* and the objects of the caller keep their field values across every call.
CallArgs(s) ==
    {sessions[s].factoryCalls[i].primaryArg : i \in DOMAIN sessions[s].factoryCalls}
    \cup {sessions[s].factoryCalls[i].options : i \in DOMAIN sessions[s].factoryCalls}

C8_CallerObjectsKept ==
    /\ \A a \in CallerAddrs : heap[a] = CallerHeap[a]
    /\ \A s \in SessionIds : \A v \in CallArgs(s) : v.t = "ref" => v.a \notin CallerAddrs
    /\ \A s \in SessionIds : \A i \in DOMAIN sessions[s].factoryCalls :
          LET call == sessions[s].factoryCalls[i] IN
          /\ call.primaryArg.t = sessions[s].primaryArg.t
          /\ call.options.t = sessions[s].options.t
          /\ sessions[s].primaryArg.t = "str" => call.primaryArg = sessions[s].primaryArg
          /\ sessions[s].primaryArg.t = "ref" =>
                Keys(heap[call.primaryArg.a]) = Keys(heap[sessions[s].primaryArg.a])
          /\ Keys(heap[call.options.a]) = Keys(heap[sessions[s].options.a])

\* The factory was called with an object primaryArg and changed its clones.
C8_Witness ==
    \E s \in SessionIds :
        /\ Len(sessions[s].factoryCalls) = 1
        /\ sessions[s].primaryArg.t = "ref"
        /\ heap[sessions[s].factoryCalls[1].primaryArg.a] # heap[sessions[s].primaryArg.a]
        /\ heap[sessions[s].factoryCalls[1].options.a] # heap[sessions[s].options.a]

----------------------------------------------------------------------------
(* Claims about useTwitterEvents, checked under SpecEvents *)

\* The step is an event of the bus.
Emitted == dispatched' # dispatched

Call(h) == [cb |-> h, args |-> << >>]

\* C5: once a handler is registered for an id under "like" (and the
\* dispatchers are bound), a "like" event with that tweet id invokes the
\* handler exactly once, and one with an id without handler invokes none,
\* for any number of Tweet instances.
C5_LikeInvokesHandlerOnce ==
    [][(Emitted /\ dispatched'.kind = "like" /\ bindCalls["like"] >= 1)
       => LET h == registered["like"][dispatched'.intent.tweet_id].last IN
          dispatched'.calls = IF h = "undefined" THEN << >> ELSE << Call(h) >>]_vars

\* C6: events.bind is called at most once per event kind in the process.
C6_BoundOncePerProcess ==
    \A k \in Kinds : bindCalls[k] <= 1

\* C7: the registry holds one callback per id and kind, the one registered
\* last; an event for the id invokes that callback and never one it replaced.
C7_LastRegistrationWins ==
    /\ [](\A k \in Kinds, id \in Ids : HANDLERS[k][id] = registered[k][id].last)
    /\ [][Emitted =>
            LET k == dispatched'.kind
                r == registered[k][SubjectId(k, dispatched'.intent)]
            IN /\ \A i \in DOMAIN dispatched'.calls :
                     /\ dispatched'.calls[i] = Call(r.last)
                     /\ dispatched'.calls[i].cb \notin r.overwritten
               /\ (bindCalls[k] >= 1 /\ r.last # "undefined") => dispatched'.calls # << >>]_vars

\* A "like" event for X invoked h2 after h2 had replaced h1.
C7_Witness ==
    /\ dispatched.kind = "like"
    /\ dispatched.intent.tweet_id = "X"
    /\ dispatched.calls # << >>
    /\ dispatched.calls[1].cb = "h2"
    /\ registered["like"]["X"] = [last |-> "h2", overwritten |-> {"h1"}]

\* C9: no failure escapes the component as an unhandled rejection, and no
\* session calls the factory function twice.
C9_NothingEscapes ==
    /\ escaped = {}
    /\ \A s \in SessionIds : Len(sessions[s].factoryCalls) <= 1

----------------------------------------------------------------------------
(* Further claims about useTwitterWidget, checked under Spec *)

\* C11: when twWidgetFactory() rejects in a session that is not canceled, the
\* rejection becomes the error state, the factory function is never called
\* for the session and onLoad is not invoked.
C11_LoadFailureIsStored ==
    /\ [][\A s \in SessionIds :
             (/\ sessions[s].pc = "awaitWF"
              /\ scriptState = "failed"
              /\ ~sessions[s].isCanceled
              /\ sessions'[s].pc # "awaitWF")
             => /\ error' = Err("loadfail", s)
                /\ sessions'[s].pc = "done"
                /\ rendered' = Render(error', props.renderError)]_vars
    /\ [](\A s \in SessionIds :
             (scriptState = "failed" /\ sessions[s].pc = "done")
             => /\ sessions[s].factoryCalls = << >>
                /\ sessions[s].onLoadCalls = << >>)

C11_Witness ==
    \E s \in SessionIds :
        /\ scriptState = "failed"
        /\ ~sessions[s].isCanceled
        /\ sessions[s].pc = "done"
        /\ error = Err("loadfail", s)
        /\ rendered = error

\* C12: an instance has at most one session that is not canceled, the latest
\* one; after unmount it has none; a canceled session stays canceled.
Active == {s \in SessionIds : ~sessions[s].isCanceled}

C12_AtMostOneActiveSession ==
    /\ [](/\ Cardinality(Active) <= 1
          /\ Active \subseteq {Current}
          /\ mounted = "gone" => Active = {})
    /\ [][\A s \in SessionIds : sessions[s].isCanceled => sessions'[s].isCanceled]_vars

\* The first session is canceled while it still waits; the second is active.
C12_Witness ==
    /\ Len(sessions) = 2
    /\ sessions[1].isCanceled /\ sessions[1].pc = "awaitCall"
    /\ Active = {2}

\* C13: when the factory call of a canceled session resolves and the mount
\* point exists, the step removes at most the session's own container; the
\* container of the latest session stays under the mount point for as long
\* as the component is mounted.
C13_StaleSessionRemovesOnlyItsOwn ==
    /\ [][\A s \in SessionIds :
             (/\ sessions[s].pc = "awaitCall"
              /\ sessions[s].isCanceled
              /\ refCurrent
              /\ sessions'[s].pc = "done"
              /\ sessions'[s].resultMaybe \in {"widget", "none"})
             => /\ children' = children \ {NewChild(s)}
                /\ NewChild(Current) \in children'
                /\ error' = error]_vars
    /\ [](mounted = "yes" => NewChild(Current) \in children)

\* The call of the canceled first session resolved next to the second one.
C13_Witness ==
    /\ Len(sessions) = 2
    /\ refCurrent
    /\ sessions[1].canceledAt = "awaitCall"
    /\ sessions[1].pc = "done" /\ sessions[1].resultMaybe = "widget"
    /\ children = {NewChild(2)}

\* C14: a non-null error state was set by the current session, after the
\* reset at its start: the error of an earlier session never shows while a
\* later session is current.
C14_ErrorIsOfCurrentSession ==
    error # Null =>
        /\ error.from = Current
        /\ sessions[Current].pc = "done"
        /\ sessions[Current].setErrorCalls = 1

\* C15: a session that stays pending has had no effect and holds nothing
\* back: every other suspended session can take its next step as soon as its
\* own promise settles, and a dependency change can start a new session.
Pending(s) == sessions[s].pc \in {"awaitWF", "awaitCall"}

Fields(v) == IF v.t = "ref" THEN {heap[v.a][i] : i \in DOMAIN heap[v.a]} ELSE {v}

SameFields(x, y) == x = y \/ (x.t = "ref" /\ y.t = "ref" /\ Fields(x) = Fields(y))

C16_EqualDepsStartNoSession ==
    [][(mounted = "yes" /\ mounted' = "yes" /\ props' # props)
       => IF /\ SameFields(props'.primaryArg, props.primaryArg)
             /\ SameFields(props'.options, props.options)
          THEN /\ sessions' = sessions
               /\ children' = children
               /\ heap' = heap
          ELSE /\ Len(sessions') = Len(sessions) + 1
               /\ sessions'[Len(sessions)].isCanceled
               /\ ~sessions'[Len(sessions')].isCanceled
               /\ sessions'[Len(sessions')].primaryArg = props'.primaryArg
               /\ sessions'[Len(sessions')].options = props'.options
               /\ children' = {NewChild(Len(sessions'))}]_vars

\* The options are a new object with the fields of the first one in another
\* order, and the only session is the one started at mount, not canceled.
C16_Witness ==
    /\ mounted = "yes"
    /\ props.options = Ref(2) /\ memoOptions = Ref(1)
    /\ Len(sessions) = 1
    /\ ~sessions[1].isCanceled
    /\ Len(sessions[1].factoryCalls) = 1
    /\ children = {NewChild(1)}

----------------------------------------------------------------------------
(* Further claims about useTwitterEvents, checked under SpecEvents *)

\* C17: a dispatcher reads only the mapping of its own kind, under tweet_id
\* for "tweet" and "like" and under source_tweet_id for "retweet": without an
\* entry it calls nothing, with one it calls that callback, once and with no
\* arguments, each time the bus runs it.
OwnEntry(kind, intent) ==
    HANDLERS[kind][IF kind = "retweet" THEN intent.source_tweet_id ELSE intent.tweet_id]

C17_DispatcherReadsItsOwnKind ==
    [][Emitted =>
         LET k == dispatched'.kind
             h == OwnEntry(k, dispatched'.intent)
         IN /\ Len(dispatched'.calls) = IF h = "undefined" THEN 0 ELSE bindCalls[k]
            /\ \A i \in DOMAIN dispatched'.calls : dispatched'.calls[i] = Call(h)]_vars

\* A "retweet" event with source_tweet_id Y and tweet_id X invoked the
\* retweet callback of Y, not the tweet callback of Y or any callback of X.
C17_Witness ==
    /\ dispatched.kind = "retweet"
    /\ dispatched.intent = [tweet_id |-> "X", source_tweet_id |-> "Y"]
    /\ dispatched.calls = << Call("h2") >>
    /\ HANDLERS["tweet"]["Y"] = "h1"
    /\ HANDLERS["tweet"]["X"] = "h2"
    /\ HANDLERS["retweet"]["X"] = "undefined"

\* C18: an entry of the registry is never removed: once a callback is stored
\* for a kind and id, one is stored there in every later state, also after
\* the unmount of its component or a render with another id or without the
\* callback, and an event for the id still invokes the stored callback.
Holds(i, kind, id) ==
    /\ tweets[i].state = "yes"
    /\ tweets[i].props.id = id
    /\ tweets[i].props.cb[kind] # "undefined"

C18_RegistryNeverShrinks ==
    /\ [][\A k \in Kinds, id \in Ids :
             /\ HANDLERS[k][id] # "undefined" => HANDLERS'[k][id] # "undefined"
             /\ (HANDLERS[k][id] # "undefined" /\ \A i \in Tweets : ~Holds(i, k, id)')
                   => HANDLERS'[k][id] = HANDLERS[k][id]]_vars
    /\ [][(Emitted /\ bindCalls[dispatched'.kind] >= 1
           /\ registered[dispatched'.kind][SubjectId(dispatched'.kind, dispatched'.intent)].last
                 # "undefined")
          => dispatched'.calls # << >>]_vars

\* A "like" event for X invoked h1 although no mounted Tweet has id X with an
\* onLike callback any more.
C18_Witness ==
    /\ dispatched.kind = "like"
    /\ dispatched.intent.tweet_id = "X"
    /\ dispatched.calls # << >>
    /\ HANDLERS["like"]["X"] = "h1"
    /\ \A i \in Tweets : ~Holds(i, "like", "X")
    /\ \E i \in Tweets : tweets[i].state = "gone"

\* C20: the registry changes only in a render of a Tweet whose effect for the
\* kind runs with a non-empty id and a callback, and then only in the entry
\* of that kind and id, which becomes that callback; events of the bus and
\* the binding steps leave it as it is.
RegistersAt(i, k, id) ==
    /\ tweets'[i].state = "yes"
    /\ tweets'[i].props # tweets[i].props
    /\ tweets'[i].props.id = id
    /\ tweets'[i].props.cb[k] # "undefined"
    /\ tweets'[i].props.cb[k] = HANDLERS'[k][id]
    /\ (tweets[i].state = "no"
        \/ tweets[i].props.id # id
        \/ tweets[i].props.cb[k] # tweets'[i].props.cb[k])

C20_OnlyRegistrationWritesRegistry ==
    [][/\ \A k \in Kinds, id \in Ids :
             HANDLERS'[k][id] # HANDLERS[k][id] => \E i \in Tweets : RegistersAt(i, k, id)
       /\ tweets' = tweets => HANDLERS' = HANDLERS
       /\ \A i \in Tweets :
             (tweets'[i].props # tweets[i].props /\ tweets'[i].props.id = "")
             => HANDLERS' = HANDLERS]_vars

\* A render stored h2 for "tweet" under X and left the other entries alone.
C20_Witness ==
    /\ HANDLERS["tweet"]["X"] = "h2"
    /\ HANDLERS["like"]["X"] = "h1"
    /\ HANDLERS["retweet"]["X"] = "undefined"
    /\ \E i \in Tweets : tweets[i].props = TweetProps("X", "h2", "undefined", "undefined")
    /\ dispatched.kind = "like" /\ dispatched.calls # << >>

----------------------------------------------------------------------------
(* Claim about the effect run without a mount point, checked under SpecDetached *)

\* C19: while the component is mounted with ref.current null, every run of
\* the effect skips the mount sequence: no container, no request for the
\* widget factory, no factory call, no onLoad, and a null error state.
C19_NoRefNoMountSequence ==
    (mounted = "yes" /\ ~refCurrent) =>
        /\ children = {}
        /\ error = Null
        /\ rendered = NotRendered
        /\ \A s \in SessionIds :
              /\ sessions[s].pc = "skipped"
              /\ sessions[s].factoryCalls = << >>
              /\ sessions[s].onLoadCalls = << >>
              /\ sessions[s].setErrorCalls = 0

\* Two dependency tuples went by without a mount point, the script is loaded.
C19_Witness ==
    /\ mounted = "yes" /\ ~refCurrent
    /\ scriptState = "loaded"
    /\ Len(sessions) = 2
    /\ sessions[1].isCanceled
    /\ props.onLoad = "returns"

====
